---- MODULE Spec2Model ----
(***************************************************************************)
(* A model of the notification gateway of src/src/main.rs: the Topic       *)
(* registry, the IP allow-list check, the two request handlers             *)
(* (post_message for text/plain, post_message_with_document for            *)
(* multipart/form-data), and the Telegram client's fan-out.                *)
(*                                                                         *)
(* Strings are sequences of Unicode code points (97 is 'a'), byte buffers  *)
(* are sequences of byte values, Option<T> is a sequence of length 0 or 1  *)
(* (<<>> is None, <<x>> is Some(x)).  A handler runs atomically between    *)
(* two of its .await points; one action models one such stretch.          *)
(***************************************************************************)
EXTENDS Integers, Sequences, FiniteSets, TLC

VARIABLES topics, reqs

vars == <<topics, reqs>>

----------------------------------------------------------------------------
(* Bounds of the model *)

\* Width, in bits, of a modelled IP address (32 and 128 in the program).
AddrBits == 2
\* Longest allow_list drawn for a topic.
MaxAllow == 2
\* Longest recipients list drawn for a topic.
MaxRecipients == 2
\* Most fields of one multipart body.
MaxFields == 2
\* Most chunks read from the fields of one multipart stream.
MaxChunks == 2
\* Longest sender label drawn for the escaper.
MaxText == 2

----------------------------------------------------------------------------
(* Option<T> *)

None == <<>>
Some(x) == <<x>>
is_some(o) == Len(o) = 1
unwrap(o) == o[1]

----------------------------------------------------------------------------
(* IP addresses and CIDR blocks (std::net::IpAddr, ipnet::IpNet) *)

Families == {"v4", "v6"}

IpAddr == [fam : Families, bits : 0 .. (2 ^ AddrBits - 1)]

IpNet == [fam : Families, addr : 0 .. (2 ^ AddrBits - 1), prefix_len : 0 .. AddrBits]

\* IpNet::network(): the block's address with its host bits cleared.
network(net) == net.addr - (net.addr % (2 ^ (AddrBits - net.prefix_len)))

\* IpNet::broadcast(): the block's address with its host bits set.
broadcast(net) == network(net) + (2 ^ (AddrBits - net.prefix_len) - 1)

contains_any_family(net, address) ==
    /\ network(net) <= address.bits
    /\ address.bits <= broadcast(net)

\* IpNet::contains(&IpAddr): blocks and addresses of different families never
\* match; within a family the address lies between network() and broadcast().
contains(net, address) ==
    /\ net.fam = address.fam
    /\ network(net) <= address.bits
    /\ address.bits <= broadcast(net)

\* The string a connection reports as its peer: an address in text form, or
\* text that is no address.
AddrStrings == [kind : {"ip"}, fam : Families, bits : 0 .. (2 ^ AddrBits - 1)]
                  \cup {[kind |-> "junk", fam |-> "v4", bits |-> 0]}

\* str::parse::<IpAddr>(): Ok(address) for an address in text form, Err otherwise.
parse(ip_address_string) ==
    IF ip_address_string.kind = "ip"
    THEN Some([fam |-> ip_address_string.fam, bits |-> ip_address_string.bits])
    ELSE None

----------------------------------------------------------------------------
(* Topic *)

is_allowed_all(topic, address) ==
    \A i \in 1 .. Len(topic.allow_list) : contains(topic.allow_list[i], address)

\* Topic::is_allowed
is_allowed(topic, address) ==
    \E i \in 1 .. Len(topic.allow_list) : contains(topic.allow_list[i], address)

----------------------------------------------------------------------------
(* TgMarkdownString *)

\* The characters of need_to_escape:  _ * [ ] ( ) ~ ` > # + - = | { } . !
need_to_escape == {95, 42, 91, 93, 40, 41, 126, 96, 62, 35, 43, 45, 61, 124, 123, 125, 46, 33}

RECURSIVE TgMarkdownString_replace(_)
TgMarkdownString_replace(s) ==
    IF s = <<>> THEN <<>>
    ELSE (IF Head(s) \in need_to_escape THEN <<92>> ELSE <<Head(s)>>)
            \o TgMarkdownString_replace(Tail(s))

\* TgMarkdownString::new: a backslash (92) pushed before every character of
\* need_to_escape, every character pushed as it is.
RECURSIVE TgMarkdownString(_)
TgMarkdownString(s) ==
    IF s = <<>> THEN <<>>
    ELSE (IF Head(s) \in need_to_escape THEN <<92, Head(s)>> ELSE <<Head(s)>>)
            \o TgMarkdownString(Tail(s))

----------------------------------------------------------------------------
(* TgClient *)

\* format!("From: *{}@{}*\n\n{}", *TgMarkdownString::new(sender), topic, text)
format_from_escape_all(sender, topic, text) ==
    <<70, 114, 111, 109, 58, 32, 42>> \o TgMarkdownString(sender) \o <<64>>
        \o TgMarkdownString(topic) \o <<42, 10, 10>> \o TgMarkdownString(text)

format_from(sender, topic, text) ==
    <<70, 114, 111, 109, 58, 32, 42>> \o TgMarkdownString(sender) \o <<64>> \o topic
        \o <<42, 10, 10>> \o text

\* What a reqwest call gives back: Ok(response with a status) or Err(error).
Statuses == {200, 204, 500}

Results == [ok : {TRUE}, status : Statuses, err : {"none"}]
              \cup [ok : {FALSE}, status : {0}, err : {"timeout", "connect"}]

Pending == [ok |-> FALSE, status |-> 0, err |-> "pending"]

\* TgClient::send_message: one POST to sendMessage carrying the JSON payload
\* SendMessagePayload {chat_id, parse_mode, text}; it is in flight until the
\* response, an error or the client's timeout ends it.
send_message(recipient, topic, sender, text) ==
    [method     |-> "sendMessage",
     chat_id    |-> recipient,
     parse_mode |-> "MarkdownV2",
     text       |-> format_from(sender, topic, text),
     filename   |-> <<>>,
     document   |-> <<>>,
     done       |-> FALSE,
     result     |-> Pending]

\* TgClient::send_message_to_all: join_all over one send_message per recipient,
\* in the order of the recipients.
send_message_to_all(recipients, topic, sender, text) ==
    [i \in 1 .. Len(recipients) |-> send_message(recipients[i], topic, sender, text)]

\* TgClient::send_document: one POST to sendDocument carrying the form
\* {chat_id, caption, parse_mode, document (file_content under filename)}.
send_document(recipient, topic, sender, message, filename, file_content) ==
    [method     |-> "sendDocument",
     chat_id    |-> recipient,
     parse_mode |-> "MarkdownV2",
     text       |-> format_from(sender, topic, message),
     filename   |-> filename,
     document   |-> file_content,
     done       |-> FALSE,
     result     |-> Pending]

\* TgClient::send_document_to_all: join_all over one send_document per recipient.
send_document_to_all(recipients, topic, sender, message, filename, file_content) ==
    [i \in 1 .. Len(recipients) |->
        send_document(recipients[i], topic, sender, message, filename, file_content)]

\* StatusCode::OK
StatusCode_OK == 200

delivered_any_2xx(res) == IF res.ok THEN res.status \in 200 .. 299 ELSE FALSE

\* The closure of responses.iter().all(..):
\* res.as_ref().map_or_else(|_| false, |resp| resp.status() == StatusCode::OK)
delivered(res) == IF res.ok THEN res.status = StatusCode_OK ELSE FALSE

responses_reversed(calls) == [i \in 1 .. Len(calls) |-> calls[Len(calls) + 1 - i].result]

\* The Vec join_all resolves to: the i-th entry is the i-th call's result.
responses_of(calls) == [i \in 1 .. Len(calls) |-> calls[i].result]

----------------------------------------------------------------------------
(* Requests *)

\* The requests in flight; each is handled by its own task.
ReqIds == {"r1"}

\* "ops" is the topic the configuration defines; "nope" is never defined.
ops == <<111, 112, 115>>
nope == <<110, 111, 112, 101>>
TopicNames == {ops, nope}

\* The sender label "a_".
Senders == {<<97, 95>>}

\* text/plain bodies: "" and "h*".
Bodies == {<<>>, <<104, 42>>}

\* ConnectionInfo::realip_remote_addr(): None, or a string.
Remotes == {None} \cup {Some(a) : a \in AddrStrings}

\* The chunks a multipart field yields: the byte '*', a character MarkdownV2
\* reserves, or the byte 0xFF, which no UTF-8 text contains.
Chunks == {<<42>>, <<255>>}

\* String::from_utf8: Ok(text) when the bytes are UTF-8, Err otherwise.  The
\* bytes of the model are ASCII (valid, one character each) or 0xFF (invalid).
from_utf8(bytes) ==
    IF \A i \in 1 .. Len(bytes) : bytes[i] < 128 THEN Some(bytes) ELSE None

\* Field names, and what content_disposition().get_filename() gives:
\* None, Some(""), Some("f").
FieldNames == {"message", "file", "other"}
Filenames == {None, Some(<<>>), Some(<<102>>)}

\* The names of the fields of a multipart body, in the order of the body.
FieldSequences == UNION {[1 .. n -> FieldNames] : n \in 0 .. MaxFields}

\* MultipartError, as its to_string().
MultipartErrors == {"Multipart stream is incomplete"}

HttpResponse(status, body) == [status |-> status, body |-> body]

IdleRequest ==
    [pc             |-> "idle",
     kind           |-> "none",
     remote         |-> None,
     topic_name     |-> <<>>,
     sender         |-> <<>>,
     body           |-> <<>>,
     client_address |-> None,
     message        |-> None,
     file_content   |-> <<>>,
     filename       |-> <<>>,
     buffer         |-> <<>>,
     field_names    |-> <<>>,
     nfields        |-> 0,
     nchunks        |-> 0,
     calls          |-> <<>>,
     completed      |-> <<>>,
     responses      |-> <<>>,
     response       |-> None,
     exit           |-> ""]

\* The handler returns: the response is what the client gets; exit names the
\* return statement taken.
return(rq, response, exit) ==
    [rq EXCEPT !.pc = "done", !.response = Some(response), !.exit = exit]

extract_client_address_unspecified(remote) ==
    IF is_some(remote)
    THEN [ok |-> TRUE,
          address |-> IF is_some(parse(unwrap(remote))) THEN parse(unwrap(remote))
                      ELSE Some([fam |-> "v4", bits |-> 0]),
          response |-> HttpResponse(500, <<"">>)]
    ELSE [ok |-> FALSE, address |-> None,
          response |-> HttpResponse(500, <<"Cannot get ip address string from request">>)]

\* extract_client_address, and the same lines inlined in post_message:
\* Ok(address) or Err(500 response).
extract_client_address(remote) ==
    IF is_some(remote)
    THEN IF is_some(parse(unwrap(remote)))
         THEN [ok |-> TRUE, address |-> parse(unwrap(remote)),
               response |-> HttpResponse(500, <<"">>)]
         ELSE [ok |-> FALSE, address |-> None,
               response |-> HttpResponse(500, <<"Cannot parse ip address from string">>)]
    ELSE [ok |-> FALSE, address |-> None,
          response |-> HttpResponse(500, <<"Cannot get ip address string from request">>)]

aggregate_any(responses) ==
    IF \E i \in 1 .. Len(responses) : delivered(responses[i])
    THEN HttpResponse(204, <<>>)
    ELSE HttpResponse(500, <<"bAdBaDnOtGoOd">>)

\* if responses.iter().all(..) { NoContent } else { InternalServerError }
aggregate(responses) ==
    IF \A i \in 1 .. Len(responses) : delivered(responses[i])
    THEN HttpResponse(204, <<>>)
    ELSE HttpResponse(500, <<"bAdBaDnOtGoOd">>)

await_all_no_wait(rq, calls) ==
    return([rq EXCEPT !.calls = calls], aggregate(responses_of(calls)), "aggregate")

\* send_.._to_all(..).await: the calls are issued and the handler waits for
\* all of them; with no call to wait for, join_all is ready at once.
await_all(rq, calls) ==
    IF calls = <<>>
    THEN return(rq, aggregate(responses_of(calls)), "aggregate")
    ELSE [rq EXCEPT !.pc = "fanout", !.calls = calls]

----------------------------------------------------------------------------
(* post_message: the text/plain handler *)

\* Topics::get
topics_get(topic_name) ==
    IF topic_name \in DOMAIN topics THEN Some(topics[topic_name]) ELSE None

post_message_run_shared(rq) ==
    LET extracted == extract_client_address(rq.remote)
        found     == topics_get(rq.topic_name)
        others    == {q \in DOMAIN reqs : reqs[q].pc # "idle" /\ reqs[q].body # rq.body}
        text      == IF others = {} THEN rq.body ELSE reqs[CHOOSE q \in others : TRUE].body
    IN  IF ~extracted.ok
        THEN return(rq, extracted.response, "address")
        ELSE IF is_some(found) /\ is_allowed(unwrap(found), unwrap(extracted.address))
             THEN await_all([rq EXCEPT !.client_address = extracted.address],
                            send_message_to_all(unwrap(found).recipients, rq.topic_name,
                                                rq.sender, text))
             ELSE return([rq EXCEPT !.client_address = extracted.address],
                         HttpResponse(404, <<"No such topic">>), "not_found")

\* The handler up to its only .await: the address, then the match on the
\* topic with its is_allowed guard, then the fan-out; `_ =>` is the 404.
post_message_run(rq) ==
    LET extracted == extract_client_address(rq.remote)
        found     == topics_get(rq.topic_name)
    IN  IF ~extracted.ok
        THEN return(rq, extracted.response, "address")
        ELSE IF is_some(found) /\ is_allowed(unwrap(found), unwrap(extracted.address))
             THEN await_all([rq EXCEPT !.client_address = extracted.address],
                            send_message_to_all(unwrap(found).recipients, rq.topic_name,
                                                rq.sender, rq.body))
             ELSE return([rq EXCEPT !.client_address = extracted.address],
                         HttpResponse(404, <<"No such topic">>), "not_found")

----------------------------------------------------------------------------
(* post_message_with_document: the multipart/form-data handler *)

\* From the handler's entry to the first multipart.next().await.
document_start(rq) ==
    LET extracted == extract_client_address(rq.remote)
    IN  IF ~extracted.ok
        THEN return(rq, extracted.response, "address")
        ELSE [rq EXCEPT !.pc = "next_field",
                        !.client_address = extracted.address,
                        !.message = None,
                        !.file_content = <<>>,
                        !.filename = <<>>]

document_after_loop_no_check(rq) ==
    LET message == IF is_some(rq.message) THEN unwrap(rq.message) ELSE <<>>
        found   == topics_get(rq.topic_name)
    IN  IF is_some(found) /\ is_allowed(unwrap(found), unwrap(rq.client_address))
        THEN await_all(rq, send_document_to_all(unwrap(found).recipients, rq.topic_name,
                                                rq.sender, message, rq.filename,
                                                rq.file_content))
        ELSE return(rq, HttpResponse(404, <<"No such topic">>), "not_found")

document_after_loop_default_x(rq) ==
    LET message == IF is_some(rq.message) THEN unwrap(rq.message) ELSE <<120>>
        found   == topics_get(rq.topic_name)
    IN  IF rq.file_content = <<>>
        THEN return(rq, HttpResponse(400, <<"Multipart no file provided">>), "no_file")
        ELSE IF is_some(found) /\ is_allowed(unwrap(found), unwrap(rq.client_address))
             THEN await_all(rq, send_document_to_all(unwrap(found).recipients,
                                                     rq.topic_name, rq.sender, message,
                                                     rq.filename, rq.file_content))
             ELSE return(rq, HttpResponse(404, <<"No such topic">>), "not_found")

document_after_loop_forbidden(rq) ==
    LET message == IF is_some(rq.message) THEN unwrap(rq.message) ELSE <<>>
        found   == topics_get(rq.topic_name)
    IN  IF rq.file_content = <<>>
        THEN return(rq, HttpResponse(400, <<"Multipart no file provided">>), "no_file")
        ELSE IF is_some(found) /\ is_allowed(unwrap(found), unwrap(rq.client_address))
             THEN await_all(rq, send_document_to_all(unwrap(found).recipients,
                                                     rq.topic_name, rq.sender, message,
                                                     rq.filename, rq.file_content))
             ELSE IF is_some(found)
                  THEN return(rq, HttpResponse(403, <<"Forbidden">>), "not_found")
                  ELSE return(rq, HttpResponse(404, <<"No such topic">>), "not_found")

\* After the field loop: message.unwrap_or_default(), the empty-file check,
\* then the match on the topic with its is_allowed guard and the fan-out.
document_after_loop(rq) ==
    LET message == IF is_some(rq.message) THEN unwrap(rq.message) ELSE <<>>
        found   == topics_get(rq.topic_name)
    IN  IF rq.file_content = <<>>
        THEN return(rq, HttpResponse(400, <<"Multipart no file provided">>), "no_file")
        ELSE IF is_some(found) /\ is_allowed(unwrap(found), unwrap(rq.client_address))
             THEN await_all(rq, send_document_to_all(unwrap(found).recipients,
                                                     rq.topic_name, rq.sender, message,
                                                     rq.filename, rq.file_content))
             ELSE return(rq, HttpResponse(404, <<"No such topic">>), "not_found")

\* What multipart.next().await yields: the end of the stream, an error, or
\* the next field with its name and the filename of its content disposition.
StreamItems ==
    {[tag |-> "end", name |-> "", filename |-> None, err |-> ""]}
        \cup [tag : {"err"}, name : {""}, filename : {None}, err : MultipartErrors]
        \cup [tag : {"field"}, name : FieldNames, filename : Filenames, err : {""}]

document_field_skip_unknown(rq, item) ==
    IF item.tag = "end" THEN document_after_loop(rq)
    ELSE IF item.tag = "err" THEN return(rq, HttpResponse(400, <<item.err>>), "stream")
    ELSE IF item.name = "message"
         THEN [rq EXCEPT !.pc = "read_message", !.buffer = <<>>, !.nfields = @ + 1]
    ELSE IF item.name = "file"
         THEN IF is_some(item.filename)
              THEN [rq EXCEPT !.pc = "read_file", !.filename = unwrap(item.filename),
                              !.nfields = @ + 1]
              ELSE return(rq, HttpResponse(400, <<"Multipart filename missing">>), "filename")
    ELSE [rq EXCEPT !.nfields = @ + 1]

document_field_reset_file(rq, item) ==
    IF item.tag = "end" THEN document_after_loop(rq)
    ELSE IF item.tag = "err" THEN return(rq, HttpResponse(400, <<item.err>>), "stream")
    ELSE IF item.name = "message"
         THEN [rq EXCEPT !.pc = "read_message", !.buffer = <<>>, !.nfields = @ + 1]
    ELSE IF item.name = "file"
         THEN IF is_some(item.filename)
              THEN [rq EXCEPT !.pc = "read_file", !.filename = unwrap(item.filename),
                              !.file_content = <<>>, !.nfields = @ + 1]
              ELSE return(rq, HttpResponse(400, <<"Multipart filename missing">>), "filename")
    ELSE return(rq, HttpResponse(400, <<"Unexpected mutlipart field \"", item.name, "\"">>),
                "unexpected")

\* One turn of `while let Some(item) = multipart.next().await`, up to the
\* next .await: the match on the item and on the field's name.
document_field(rq, item) ==
    IF item.tag = "end" THEN document_after_loop(rq)
    ELSE IF item.tag = "err" THEN return(rq, HttpResponse(400, <<item.err>>), "stream")
    ELSE IF item.name = "message"
         THEN [rq EXCEPT !.pc = "read_message", !.buffer = <<>>, !.nfields = @ + 1]
    ELSE IF item.name = "file"
         THEN IF is_some(item.filename)
              THEN [rq EXCEPT !.pc = "read_file", !.filename = unwrap(item.filename),
                              !.nfields = @ + 1]
              ELSE return(rq, HttpResponse(400, <<"Multipart filename missing">>), "filename")
    ELSE return(rq, HttpResponse(400, <<"Unexpected mutlipart field \"", item.name, "\"">>),
                "unexpected")

\* What field.next().await yields: the end of the field, an error, or a chunk.
ChunkItems ==
    {[tag |-> "end", bytes |-> <<>>, err |-> ""]}
        \cup [tag : {"err"}, bytes : {<<>>}, err : MultipartErrors]
        \cup [tag : {"chunk"}, bytes : Chunks, err : {""}]

\* One turn of `while let Some(chunk) = field.next().await` of a "message"
\* field; at the field's end the buffer becomes the message, if it is UTF-8.
document_message_chunk(rq, item) ==
    IF item.tag = "err" THEN return(rq, HttpResponse(400, <<item.err>>), "chunk")
    ELSE IF item.tag = "chunk"
         THEN [rq EXCEPT !.buffer = @ \o item.bytes, !.nchunks = @ + 1]
    ELSE IF is_some(from_utf8(rq.buffer))
         THEN [rq EXCEPT !.pc = "next_field", !.message = from_utf8(rq.buffer),
                         !.buffer = <<>>]
         ELSE return(rq, HttpResponse(400, <<"Message is not valid UTF-8">>), "utf8")

document_file_chunk_ignore_error(rq, item) ==
    IF item.tag = "chunk"
    THEN [rq EXCEPT !.file_content = @ \o item.bytes, !.nchunks = @ + 1]
    ELSE [rq EXCEPT !.pc = "next_field"]

\* One turn of `while let Some(chunk) = field.next().await` of a "file" field.
document_file_chunk(rq, item) ==
    IF item.tag = "err" THEN return(rq, HttpResponse(400, <<item.err>>), "chunk")
    ELSE IF item.tag = "chunk"
         THEN [rq EXCEPT !.file_content = @ \o item.bytes, !.nchunks = @ + 1]
    ELSE [rq EXCEPT !.pc = "next_field"]

----------------------------------------------------------------------------
(* The configuration: Config.topics, read once by main *)

AllRecipients == <<"111", "222", "333", "444">>

\* Recipient lists: the first n of AllRecipients.
RecipientLists == {SubSeq(AllRecipients, 1, n) : n \in 0 .. MaxRecipients}

\* The upper half of the v4 addresses, and one v6 host.
UpperV4 == [fam |-> "v4", addr |-> 2 ^ (AddrBits - 1), prefix_len |-> 1]
HostV6 == [fam |-> "v6", addr |-> 2 ^ AddrBits - 1, prefix_len |-> AddrBits]

Topic(recipients, allow_list) == [recipients |-> recipients, allow_list |-> allow_list]

\* Configurations of the request pipeline: "ops" with any recipient list and
\* an empty, a one-block or a two-block allow_list.
PipelineTopics ==
    {[n \in {ops} |-> Topic(rs, al)] : rs \in RecipientLists,
                                       al \in {<<>>, <<UpperV4>>, <<HostV6, UpperV4>>}}

\* Callers of the request pipeline: no address, no parsable address, a v4
\* address in UpperV4, a v4 address outside it, the v6 host HostV6.
PipelineRemotes ==
    {None,
     Some([kind |-> "junk", fam |-> "v4", bits |-> 0]),
     Some([kind |-> "ip", fam |-> "v4", bits |-> 2 ^ AddrBits - 1]),
     Some([kind |-> "ip", fam |-> "v4", bits |-> 0]),
     Some([kind |-> "ip", fam |-> "v6", bits |-> 2 ^ AddrBits - 1])}

\* A block's place in an enumeration of IpNet.
NetIndex(net) ==
    ((IF net.fam = "v4" THEN 0 ELSE 1) * (2 ^ AddrBits) + net.addr) * (AddrBits + 1)
        + net.prefix_len

\* Every allow_list of at most MaxAllow distinct blocks, in the order of the
\* enumeration.
AllowLists ==
    {al \in UNION {[1 .. n -> IpNet] : n \in 0 .. MaxAllow} :
        \A i \in 1 .. Len(al) - 1 : NetIndex(al[i]) < NetIndex(al[i + 1])}

\* Configurations of the authorization check: "ops" with one recipient and
\* any allow_list.
AuthTopics == {[n \in {ops} |-> Topic(<<"111">>, al)] : al \in AllowLists}

----------------------------------------------------------------------------
(* Actions *)

\* A text/plain POST /{topic_name}/{sender} is routed to post_message.
ReceiveTextFrom(r, remotes, names, senders, bodies) ==
    /\ reqs[r].pc = "idle"
    /\ \E remote \in remotes, topic_name \in names, sender \in senders, body \in bodies :
          reqs' = [reqs EXCEPT ![r] = [IdleRequest EXCEPT !.pc = "received",
                                                          !.kind = "text",
                                                          !.remote = remote,
                                                          !.topic_name = topic_name,
                                                          !.sender = sender,
                                                          !.body = body]]
    /\ UNCHANGED topics

ReceiveText(r) == ReceiveTextFrom(r, PipelineRemotes, TopicNames, Senders, Bodies)

\* A multipart/form-data POST is routed to post_message_with_document.
ReceiveMultipartFrom(r, remotes, names, senders, field_sequences) ==
    /\ reqs[r].pc = "idle"
    /\ \E remote \in remotes, topic_name \in names, sender \in senders,
          field_names \in field_sequences :
          reqs' = [reqs EXCEPT ![r] = [IdleRequest EXCEPT !.pc = "received",
                                                          !.kind = "multipart",
                                                          !.remote = remote,
                                                          !.topic_name = topic_name,
                                                          !.sender = sender,
                                                          !.field_names = field_names]]
    /\ UNCHANGED topics

ReceiveMultipart(r) ==
    ReceiveMultipartFrom(r, PipelineRemotes, TopicNames, Senders, FieldSequences)

post_message(r) ==
    /\ reqs[r].pc = "received"
    /\ reqs[r].kind = "text"
    /\ reqs' = [reqs EXCEPT ![r] = post_message_run(reqs[r])]
    /\ UNCHANGED topics

post_message_with_document(r) ==
    /\ reqs[r].pc = "received"
    /\ reqs[r].kind = "multipart"
    /\ reqs' = [reqs EXCEPT ![r] = document_start(reqs[r])]
    /\ UNCHANGED topics

\* multipart.next().await resolves: with the next field of the body, with the
\* end of the stream after its last field, or with an error.
NextField(r) ==
    /\ reqs[r].pc = "next_field"
    /\ \E item \in StreamItems :
          /\ item.tag = "field" =>
                /\ reqs[r].nfields < Len(reqs[r].field_names)
                /\ item.name = reqs[r].field_names[reqs[r].nfields + 1]
          /\ item.tag = "end" => reqs[r].nfields = Len(reqs[r].field_names)
          /\ reqs' = [reqs EXCEPT ![r] = document_field(reqs[r], item)]
    /\ UNCHANGED topics

\* field.next().await resolves.
NextChunk(r) ==
    /\ reqs[r].pc \in {"read_message", "read_file"}
    /\ \E item \in ChunkItems :
          /\ item.tag = "chunk" => reqs[r].nchunks < MaxChunks
          /\ reqs' = [reqs EXCEPT ![r] =
                         IF reqs[r].pc = "read_message"
                         THEN document_message_chunk(reqs[r], item)
                         ELSE document_file_chunk(reqs[r], item)]
    /\ UNCHANGED topics

complete_and_retry(calls, i, res) ==
    IF delivered(res)
    THEN [calls EXCEPT ![i].done = TRUE, ![i].result = res]
    ELSE Append([calls EXCEPT ![i].done = TRUE, ![i].result = res],
                [calls[i] EXCEPT !.done = FALSE])

complete_and_cancel(calls, i, res) ==
    IF delivered(res)
    THEN [calls EXCEPT ![i].done = TRUE, ![i].result = res]
    ELSE [j \in 1 .. Len(calls) |->
            IF j = i \/ ~calls[j].done
            THEN [calls[j] EXCEPT !.done = TRUE, !.result = res]
            ELSE calls[j]]

\* One call of the join_all ends with its result; the others are untouched.
complete(calls, i, res) == [calls EXCEPT ![i].done = TRUE, ![i].result = res]

\* The i-th downstream call, in flight, ends with res; completed keeps, in
\* the order the calls end, which call ended, to whom it went and with what.
CompleteCallWith(r, i, res) ==
    /\ reqs[r].pc = "fanout"
    /\ i \in 1 .. Len(reqs[r].calls)
    /\ ~reqs[r].calls[i].done
    /\ reqs' = [reqs EXCEPT ![r].calls = complete(reqs[r].calls, i, res),
                            ![r].completed =
                                Append(@, [index |-> i,
                                           chat_id |-> reqs[r].calls[i].chat_id,
                                           result |-> res])]
    /\ UNCHANGED topics

\* A downstream call in flight ends: a response with a status, an error, or
\* the client's 10 s timeout.
CompleteCall(r) ==
    \E i \in 1 .. Len(reqs[r].calls), res \in Results : CompleteCallWith(r, i, res)

\* join_all is ready once every call has ended; the handler aggregates.
JoinAll(r) ==
    /\ reqs[r].pc = "fanout"
    /\ \A i \in 1 .. Len(reqs[r].calls) : reqs[r].calls[i].done
    /\ LET responses == responses_of(reqs[r].calls)
       IN  reqs' = [reqs EXCEPT ![r] = return([reqs[r] EXCEPT !.responses = responses],
                                              aggregate(responses), "aggregate")]
    /\ UNCHANGED topics

\* The response is written and the request context dropped.
Close(r) ==
    /\ reqs[r].pc = "done"
    /\ reqs' = [reqs EXCEPT ![r] = IdleRequest]
    /\ UNCHANGED topics

----------------------------------------------------------------------------
(* Specifications *)

Init ==
    /\ topics \in PipelineTopics
    /\ reqs = [r \in ReqIds |-> IdleRequest]

Next ==
    \E r \in ReqIds :
        \/ ReceiveText(r)
        \/ ReceiveMultipart(r)
        \/ post_message(r)
        \/ post_message_with_document(r)
        \/ NextField(r)
        \/ NextChunk(r)
        \/ CompleteCall(r)
        \/ JoinAll(r)
        \/ Close(r)

Spec == Init /\ [][Next]_vars

\* The authorization check over every allow_list: text/plain requests to "ops".
InitAuth ==
    /\ topics \in AuthTopics
    /\ reqs = [r \in ReqIds |-> IdleRequest]

NextAuth ==
    \E r \in ReqIds :
        \/ ReceiveTextFrom(r, Remotes, {ops}, {<<97>>}, {<<>>})
        \/ post_message(r)
        \/ CompleteCall(r)
        \/ JoinAll(r)
        \/ Close(r)

SpecAuth == InitAuth /\ [][NextAuth]_vars

\* The escaper and the composed text: the topic "ops.eu", whose name has a
\* reserved character, one recipient, callers from UpperV4; text/plain
\* requests with every sender label of at most MaxText characters drawn from
\* the reserved characters, the backslash, 'a' and a non-ASCII letter, and
\* multipart requests of a "message" and a "file" field.
ops_eu == <<111, 112, 115, 46, 101, 117>>

EscapeTopics == [n \in {ops_eu} |-> Topic(<<"111">>, <<UpperV4>>)]

EscapeAlphabet == need_to_escape \cup {92, 97, 233}

EscapeSenders == UNION {[1 .. n -> EscapeAlphabet] : n \in 0 .. MaxText}

UpperV4Remote == Some([kind |-> "ip", fam |-> "v4", bits |-> 2 ^ AddrBits - 1])

InitEscape ==
    /\ topics = EscapeTopics
    /\ reqs = [r \in ReqIds |-> IdleRequest]

NextEscape ==
    \E r \in ReqIds :
        \/ ReceiveTextFrom(r, {UpperV4Remote}, {ops_eu}, EscapeSenders, Bodies)
        \/ ReceiveMultipartFrom(r, {UpperV4Remote}, {ops_eu}, Senders, {<<"message", "file">>})
        \/ post_message(r)
        \/ post_message_with_document(r)
        \/ NextField(r)
        \/ NextChunk(r)
        \/ CompleteCall(r)
        \/ JoinAll(r)
        \/ Close(r)

SpecEscape == InitEscape /\ [][NextEscape]_vars

----------------------------------------------------------------------------
(* Vocabulary of the properties *)

\* The request has been answered.
Answered(r) == reqs[r].pc = "done"

Response(r) == unwrap(reqs[r].response)

\* The caller's address is present and is an address.
HasAddress(r) == reqs[r].remote # None /\ unwrap(reqs[r].remote).kind = "ip"

Address(r) == [fam |-> unwrap(reqs[r].remote).fam, bits |-> unwrap(reqs[r].remote).bits]

\* The requested topic is in the registry.
TopicExists(r) == reqs[r].topic_name \in DOMAIN topics

\* CIDR containment, stated on prefixes: same family, and the address and
\* the block agree on the block's first prefix_len bits.
InBlock(net, address) ==
    /\ net.fam = address.fam
    /\ address.bits \div (2 ^ (AddrBits - net.prefix_len))
          = net.addr \div (2 ^ (AddrBits - net.prefix_len))

InSomeBlock(allow_list, address) ==
    \E i \in 1 .. Len(allow_list) : InBlock(allow_list[i], address)

\* The topic exists and the caller's address is in one of its blocks.
Authorized(r) ==
    /\ TopicExists(r)
    /\ HasAddress(r)
    /\ InSomeBlock(topics[reqs[r].topic_name].allow_list, Address(r))

NotFound == HttpResponse(404, <<"No such topic">>)

----------------------------------------------------------------------------
(* C1 *)

\* C1: every answered request, text/plain or multipart, whose caller has an
\* address and whose topic is absent from the registry is answered 404.
C1_AbsentTopicIs404 ==
    \A r \in ReqIds :
        (Answered(r) /\ HasAddress(r) /\ ~TopicExists(r)) => Response(r).status = 404

----------------------------------------------------------------------------
(* C2 *)

\* C2: a request has downstream calls (sendMessage or sendDocument) only if
\* its topic exists and the caller's address is in a block of the topic's
\* allow_list; so a topic with an empty allow_list has none.
C2_NoDeliveryUnlessAuthorized ==
    \A r \in ReqIds :
        reqs[r].calls # <<>> =>
            /\ Authorized(r)
            /\ topics[reqs[r].topic_name].allow_list # <<>>

\* A multipart request with a file, to a topic with recipients and an empty
\* allow_list, is answered without any downstream call.
C2_Witness ==
    \E r \in ReqIds :
        /\ Answered(r)
        /\ reqs[r].kind = "multipart"
        /\ reqs[r].file_content # <<>>
        /\ TopicExists(r)
        /\ HasAddress(r)
        /\ topics[reqs[r].topic_name].allow_list = <<>>
        /\ topics[reqs[r].topic_name].recipients # <<>>
        /\ reqs[r].exit = "not_found"
        /\ reqs[r].calls = <<>>

----------------------------------------------------------------------------
(* C3 *)

\* C3: a request answered after the fan-out gets 204 if every recipient's
\* outcome is a success and 500 otherwise, there being one outcome per
\* recipient; a topic without recipients gives 204 and no downstream call.
C3_AllOrNothing ==
    \A r \in ReqIds :
        (Answered(r) /\ reqs[r].exit = "aggregate") =>
            LET rq == reqs[r]
                allOk == \A i \in 1 .. Len(rq.calls) : delivered(rq.calls[i].result)
            IN  /\ Len(rq.calls) = Len(topics[rq.topic_name].recipients)
                /\ Response(r).status \in {204, 500}
                /\ Response(r).status = 204 <=> allOk
                /\ topics[rq.topic_name].recipients = <<>> =>
                      (rq.calls = <<>> /\ Response(r).status = 204)

\* Two recipients, one success and one failure: the answer is 500.
C3_Witness ==
    \E r \in ReqIds :
        /\ Answered(r)
        /\ reqs[r].exit = "aggregate"
        /\ Len(reqs[r].calls) = 2
        /\ delivered(reqs[r].calls[1].result)
        /\ ~delivered(reqs[r].calls[2].result)
        /\ Response(r).status = 500

----------------------------------------------------------------------------
(* C4 *)

\* During and after the fan-out there is exactly one call per recipient, the
\* i-th to the i-th recipient; every call still in flight can end with any
\* result whatever the results of the others; the answer comes only when all
\* have ended.
C4_OneCallPerRecipient ==
    \A r \in ReqIds :
        (reqs[r].pc = "fanout" \/ (Answered(r) /\ reqs[r].exit = "aggregate")) =>
            LET rq == reqs[r]
                recipients == topics[rq.topic_name].recipients
            IN  /\ Len(rq.calls) = Len(recipients)
                /\ \A i \in 1 .. Len(rq.calls) :
                      /\ rq.calls[i].chat_id = recipients[i]
                      /\ (rq.pc = "fanout" /\ ~rq.calls[i].done) =>
                            \A res \in Results : ENABLED CompleteCallWith(r, i, res)
                      /\ Answered(r) => (rq.calls[i].done /\ rq.calls[i].result \in Results)

\* A step of a request in its fan-out ends at most one call, and changes
\* nothing of any other call: no sibling is cancelled, no ended call is
\* issued again.
C4_SiblingsUntouched ==
    \A r \in ReqIds :
        (reqs[r].pc = "fanout" /\ reqs'[r].pc \in {"fanout", "done"}) =>
            /\ Len(reqs'[r].calls) = Len(reqs[r].calls)
            /\ \A i \in 1 .. Len(reqs[r].calls) :
                  /\ reqs[r].calls[i].done => reqs'[r].calls[i] = reqs[r].calls[i]
                  /\ reqs'[r].calls[i] # reqs[r].calls[i] =>
                        \A j \in 1 .. Len(reqs[r].calls) :
                            j # i => reqs'[r].calls[j] = reqs[r].calls[j]

\* C4: for every request that reaches the fan-out, each recipient's call is
\* issued exactly once and runs to completion whatever the outcomes of the
\* other calls: a failure neither cancels nor blocks a sibling, and no call
\* is retried.
C4_IndependentCalls == [](C4_OneCallPerRecipient) /\ [][C4_SiblingsUntouched]_vars

\* Two recipients: the first call has failed, the second is still in flight.
C4_Witness ==
    \E r \in ReqIds :
        /\ reqs[r].pc = "fanout"
        /\ Len(reqs[r].calls) = 2
        /\ reqs[r].calls[1].done
        /\ ~delivered(reqs[r].calls[1].result)
        /\ ~reqs[r].calls[2].done

----------------------------------------------------------------------------
(* C5 *)

\* The other recipients' calls all got status 200, so that the answer shows
\* how the i-th outcome counts.
OthersOk(r, i) ==
    \A j \in 1 .. Len(reqs[r].calls) :
        j # i => (reqs[r].calls[j].result.ok /\ reqs[r].calls[j].result.status = 200)

\* C5 as stated: an outcome counts as a success exactly when the call returned
\* a 2xx status, as a failure when it ended in an error, a timeout or another
\* status.
C5_SuccessIs2xx ==
    \A r \in ReqIds :
        (Answered(r) /\ reqs[r].exit = "aggregate") =>
            \A i \in 1 .. Len(reqs[r].calls) :
                OthersOk(r, i) =>
                    (Response(r).status = 204 <=>
                        (reqs[r].calls[i].result.ok
                            /\ reqs[r].calls[i].result.status \in 200 .. 299))

\* C5, amended: an outcome counts as a success exactly when the call returned
\* status 200, and as a failure when it ended in an error or a timeout or
\* returned any other status, 2xx or not.
C5_SuccessIs200 ==
    \A r \in ReqIds :
        (Answered(r) /\ reqs[r].exit = "aggregate") =>
            \A i \in 1 .. Len(reqs[r].calls) :
                OthersOk(r, i) =>
                    /\ Response(r).status = 204 <=>
                          (reqs[r].calls[i].result.ok
                              /\ reqs[r].calls[i].result.status = 200)
                    /\ Response(r).status = 500 <=>
                          (~reqs[r].calls[i].result.ok
                              \/ reqs[r].calls[i].result.status # 200)

\* A call that returned 204 counted as a failure.
C5_Witness ==
    \E r \in ReqIds :
        /\ Answered(r)
        /\ reqs[r].exit = "aggregate"
        /\ Len(reqs[r].calls) = 1
        /\ reqs[r].calls[1].result.ok
        /\ reqs[r].calls[1].result.status = 204
        /\ Response(r).status = 500

----------------------------------------------------------------------------
(* C6 *)

\* C6: a request whose caller's address is not in the allow_list of the topic
\* it names is answered with the response of a failed authorization, 404 "No
\* such topic", whatever its body, and never with a 400 of the ingestion.
C6_UnauthorizedBeforeIngestion ==
    \A r \in ReqIds :
        (Answered(r) /\ HasAddress(r) /\ TopicExists(r) /\ ~Authorized(r)) =>
            (Response(r) = NotFound /\ Response(r).status # 400)

----------------------------------------------------------------------------
(* C7 *)

\* C7: is_allowed(T, A) is true exactly when A is in at least one block of
\* T's allow_list, a block holding only addresses of its own family; so one
\* matching block is enough and an empty allow_list allows no address.  The
\* handler's answer follows it: a text request with an address gets 404
\* exactly when no block holds the address.  (The registry never changes: the
\* check over every address is made in the states with no request in flight.)
C7_AllowedIffInSomeBlock ==
    /\ (\A r \in ReqIds : reqs[r].pc = "idle") =>
          \A n \in DOMAIN topics : \A a \in IpAddr :
              /\ is_allowed(topics[n], a) <=> InSomeBlock(topics[n].allow_list, a)
              /\ topics[n].allow_list = <<>> => ~is_allowed(topics[n], a)
              /\ \A i \in 1 .. Len(topics[n].allow_list) :
                    /\ InBlock(topics[n].allow_list[i], a) => is_allowed(topics[n], a)
                    /\ contains(topics[n].allow_list[i], a) =>
                          topics[n].allow_list[i].fam = a.fam
    /\ \A r \in ReqIds :
          (Answered(r) /\ reqs[r].kind = "text" /\ HasAddress(r) /\ TopicExists(r)) =>
              (Response(r) = NotFound <=>
                  ~InSomeBlock(topics[reqs[r].topic_name].allow_list, Address(r)))

\* A v6 caller let in by the second block of an allow_list whose first block
\* is a v4 block: the request went on to the fan-out.
C7_Witness ==
    \E r \in ReqIds :
        /\ Answered(r)
        /\ reqs[r].exit = "aggregate"
        /\ HasAddress(r)
        /\ Address(r).fam = "v6"
        /\ Len(topics[reqs[r].topic_name].allow_list) = 2
        /\ topics[reqs[r].topic_name].allow_list[1].fam = "v4"
        /\ topics[reqs[r].topic_name].allow_list[2].prefix_len = 1
        /\ InBlock(topics[reqs[r].topic_name].allow_list[2], Address(r))

----------------------------------------------------------------------------
(* C8 *)

\* The body has a field that is neither "message" nor "file".
HasUnexpectedField(r) ==
    \E k \in 1 .. Len(reqs[r].field_names) : reqs[r].field_names[k] \notin {"message", "file"}

\* The place of the first such field.
FirstUnexpected(r) ==
    CHOOSE k \in 1 .. Len(reqs[r].field_names) :
        /\ reqs[r].field_names[k] \notin {"message", "file"}
        /\ \A j \in 1 .. (k - 1) : reqs[r].field_names[j] \in {"message", "file"}

UnexpectedField(name) == HttpResponse(400, <<"Unexpected mutlipart field \"", name, "\"">>)

\* C8 as stated, for the requests whose address was extracted and whose
\* stream and chunks came without a transport error: a multipart body with a
\* field that is neither "message" nor "file" is answered 400 "unexpected
\* field", wherever the field is and whatever the other fields are.
C8_UnexpectedFieldAlways ==
    \A r \in ReqIds :
        (/\ Answered(r)
         /\ reqs[r].kind = "multipart"
         /\ HasAddress(r)
         /\ HasUnexpectedField(r)
         /\ reqs[r].exit \notin {"stream", "chunk"}) =>
            Response(r) = UnexpectedField(reqs[r].field_names[FirstUnexpected(r)])

\* C8, amended: it is so when the caller's address was extracted and nothing
\* before the field failed: no stream error, no chunk-read error, no message
\* that is not UTF-8, no file field without a filename.  Then the answer is
\* the 400 naming the first such field, and nothing after it is read.
C8_UnexpectedFieldUnlessEarlierFailure ==
    \A r \in ReqIds :
        (/\ Answered(r)
         /\ reqs[r].kind = "multipart"
         /\ HasAddress(r)
         /\ HasUnexpectedField(r)
         /\ reqs[r].exit \notin {"stream", "chunk", "utf8", "filename"}) =>
            /\ Response(r) = UnexpectedField(reqs[r].field_names[FirstUnexpected(r)])
            /\ reqs[r].nfields = FirstUnexpected(r) - 1
            /\ reqs[r].calls = <<>>

\* The unexpected field comes second, after a file field with content, and
\* the answer is the 400 that names it.
C8_Witness ==
    \E r \in ReqIds :
        /\ Answered(r)
        /\ reqs[r].kind = "multipart"
        /\ reqs[r].field_names = <<"file", "other">>
        /\ reqs[r].file_content # <<>>
        /\ reqs[r].exit = "unexpected"
        /\ Response(r) = UnexpectedField("other")

----------------------------------------------------------------------------
(* C9 *)

\* The stream was read to its end: the handler left after the field loop.
StreamEnded(r) ==
    /\ reqs[r].kind = "multipart"
    /\ reqs[r].pc \in {"fanout", "done"}
    /\ reqs[r].pc = "done" => reqs[r].exit \in {"no_file", "not_found", "aggregate"}

NoFileIn(r) == \A k \in 1 .. Len(reqs[r].field_names) : reqs[r].field_names[k] # "file"

\* C9: when the stream ends and the body had no "file" field, or the content
\* accumulated from its "file" fields is empty, the answer is 400 "no file
\* provided" and there is no downstream call.
C9_NoFileProvided ==
    \A r \in ReqIds :
        (StreamEnded(r) /\ (NoFileIn(r) \/ reqs[r].file_content = <<>>)) =>
            /\ Answered(r)
            /\ Response(r) = HttpResponse(400, <<"Multipart no file provided">>)
            /\ reqs[r].calls = <<>>

\* An authorized caller, a topic with recipients, a "file" field with a
\* filename and no chunk: 400 and no call.
C9_Witness ==
    \E r \in ReqIds :
        /\ Answered(r)
        /\ Authorized(r)
        /\ topics[reqs[r].topic_name].recipients # <<>>
        /\ reqs[r].field_names = <<"message", "file">>
        /\ reqs[r].filename # <<>>
        /\ reqs[r].file_content = <<>>
        /\ reqs[r].exit = "no_file"
        /\ Response(r).status = 400

----------------------------------------------------------------------------
(* C10 *)

NoMessageIn(r) == \A k \in 1 .. Len(reqs[r].field_names) : reqs[r].field_names[k] # "message"

\* C10: a body with "file" fields that give a content, and no "message"
\* field, passes the ingestion with the empty text as its message: for an
\* authorized caller every recipient gets one sendDocument with the content,
\* the filename and the caption composed from the empty message, and the
\* answer is 204 when all of them succeed.
C10_FileWithoutMessage ==
    \A r \in ReqIds :
        (StreamEnded(r) /\ NoMessageIn(r) /\ reqs[r].file_content # <<>> /\ Authorized(r)) =>
            LET rq == reqs[r]
                recipients == topics[rq.topic_name].recipients
            IN  /\ rq.message = None
                /\ Len(rq.calls) = Len(recipients)
                /\ \A i \in 1 .. Len(rq.calls) :
                      /\ rq.calls[i].method = "sendDocument"
                      /\ rq.calls[i].chat_id = recipients[i]
                      /\ rq.calls[i].document = rq.file_content
                      /\ rq.calls[i].filename = rq.filename
                      /\ rq.calls[i].text = format_from(rq.sender, rq.topic_name, <<>>)
                      /\ SubSeq(rq.calls[i].text, Len(rq.calls[i].text) - 2,
                                Len(rq.calls[i].text)) = <<42, 10, 10>>
                /\ (Answered(r) /\ \A i \in 1 .. Len(rq.calls) :
                                      (rq.calls[i].result.ok /\ rq.calls[i].result.status = 200))
                      => Response(r).status = 204

\* Two recipients, a body of one "file" field named "f": both got the
\* document and the answer is 204.
C10_Witness ==
    \E r \in ReqIds :
        /\ Answered(r)
        /\ reqs[r].field_names = <<"file">>
        /\ reqs[r].filename = <<102>>
        /\ Len(reqs[r].calls) = 2
        /\ \A i \in 1 .. 2 : reqs[r].calls[i].method = "sendDocument"
        /\ Response(r).status = 204


----------------------------------------------------------------------------
(* C11 *)

IngestionExits == {"stream", "chunk", "utf8", "filename", "unexpected"}

\* The handler has returned a 400 and has read and sent nothing more than rq.
Rejected(rq, next) ==
    /\ next.pc = "done"
    /\ unwrap(next.response).status = 400
    /\ next.exit \in IngestionExits
    /\ next.calls = <<>>
    /\ next.nfields = rq.nfields
    /\ next.nchunks = rq.nchunks

\* What the stream may yield to request r where it stands.
FieldItemsAt(r) ==
    {item \in StreamItems :
        /\ item.tag = "field" =>
              /\ reqs[r].nfields < Len(reqs[r].field_names)
              /\ item.name = reqs[r].field_names[reqs[r].nfields + 1]
        /\ item.tag = "end" => reqs[r].nfields = Len(reqs[r].field_names)}

\* Every ingestion error that can come where the request stands makes the
\* handler return a 400 at once; and a request answered with an ingestion
\* error has a 400 and no downstream call.
C11_ErrorIs400 ==
    \A r \in ReqIds :
        LET rq == reqs[r]
        IN  /\ rq.pc = "next_field" =>
                  \A item \in FieldItemsAt(r) :
                      (\/ item.tag = "err"
                       \/ item.tag = "field" /\ item.name \notin {"message", "file"}
                       \/ item.tag = "field" /\ item.name = "file" /\ item.filename = None)
                          => Rejected(rq, document_field(rq, item))
            /\ rq.pc = "read_message" =>
                  \A item \in ChunkItems :
                      (\/ item.tag = "err"
                       \/ item.tag = "end" /\ \E i \in 1 .. Len(rq.buffer) : rq.buffer[i] >= 128)
                          => Rejected(rq, document_message_chunk(rq, item))
            /\ rq.pc = "read_file" =>
                  \A item \in ChunkItems :
                      item.tag = "err" => Rejected(rq, document_file_chunk(rq, item))
            /\ (Answered(r) /\ rq.exit \in IngestionExits) =>
                  (Response(r).status = 400 /\ rq.calls = <<>>)

\* An answered request reads no field, no chunk and sends nothing: its only
\* step is the one that drops it.
C11_NothingAfterAnswer ==
    \A r \in ReqIds :
        Answered(r) => (reqs'[r] = reqs[r] \/ reqs'[r] = IdleRequest)

\* C11: any ingestion error of the multipart path (stream error, chunk-read
\* error in a "message" or "file" field, message that is not UTF-8, missing
\* filename, unexpected field) ends the request at once with a 400: no
\* further field or chunk is read and no downstream call is issued.
C11_IngestionErrorEnds == [](C11_ErrorIs400) /\ [][C11_NothingAfterAnswer]_vars

\* An authorized caller, a topic with recipients, a chunk-read error after a
\* first chunk of the "file" field, a further field unread: 400, no call.
C11_Witness ==
    \E r \in ReqIds :
        /\ Answered(r)
        /\ Authorized(r)
        /\ topics[reqs[r].topic_name].recipients # <<>>
        /\ reqs[r].exit = "chunk"
        /\ reqs[r].file_content # <<>>
        /\ reqs[r].nfields < Len(reqs[r].field_names)
        /\ Response(r).status = 400
        /\ reqs[r].calls = <<>>

----------------------------------------------------------------------------
(* C12 *)

----------------------------------------------------------------------------
(* C13 *)

\* The backslashes removed.
StripBackslash(s) == SelectSeq(s, LAMBDA c : c # 92)

\* The message a request delivers: the text/plain body, or the "message" of
\* the multipart body, empty when it has none.
MessageOf(r) ==
    IF reqs[r].kind = "text" THEN reqs[r].body
    ELSE IF reqs[r].message = None THEN <<>> ELSE unwrap(reqs[r].message)

\* The escaper's output as it stands in a composed text, between the
\* "From: *" and the "@" that comes before the topic, the "*\n\n" and the
\* message.
EscapedIn(r, text) ==
    SubSeq(text, 8, Len(text) - (1 + Len(reqs[r].topic_name) + 3 + Len(MessageOf(r))))

\* C13 as stated: for every sender label, removing the backslashes from the
\* escaper's output gives the label back, and a label with no reserved
\* character is left as it is.
C13_StripRestores ==
    \A r \in ReqIds : \A i \in 1 .. Len(reqs[r].calls) :
        LET escaped == EscapedIn(r, reqs[r].calls[i].text)
        IN  /\ StripBackslash(escaped) = reqs[r].sender
            /\ (\A k \in 1 .. Len(reqs[r].sender) : reqs[r].sender[k] \notin need_to_escape)
                  => escaped = reqs[r].sender

\* C13, amended: for every text with no backslash in it, removing the
\* backslashes from the escaper's output gives the text back; for every
\* text with no reserved character, backslashes or not, the output is the
\* input.
C13_StripRestoresWithoutBackslash ==
    \A r \in ReqIds : \A i \in 1 .. Len(reqs[r].calls) :
        LET escaped == EscapedIn(r, reqs[r].calls[i].text)
        IN  /\ (\A k \in 1 .. Len(reqs[r].sender) : reqs[r].sender[k] # 92)
                  => StripBackslash(escaped) = reqs[r].sender
            /\ (\A k \in 1 .. Len(reqs[r].sender) : reqs[r].sender[k] \notin need_to_escape)
                  => escaped = reqs[r].sender
            /\ Len(escaped) >= Len(reqs[r].sender)

\* The sender "e-acute, underscore" went out as "e-acute, backslash, underscore".
C13_Witness ==
    \E r \in ReqIds :
        /\ reqs[r].sender = <<233, 95>>
        /\ reqs[r].calls # <<>>
        /\ EscapedIn(r, reqs[r].calls[1].text) = <<233, 92, 95>>


----------------------------------------------------------------------------
(* C14 *)

\* C14: the fan-out gives the handler exactly one outcome per entry of the
\* recipient list, the i-th being the result with which the call to the i-th
\* recipient ended, in whatever order the calls ended.
C14_OutcomesInRecipientOrder ==
    \A r \in ReqIds :
        (Answered(r) /\ reqs[r].exit = "aggregate") =>
            LET rq == reqs[r]
                recipients == topics[rq.topic_name].recipients
            IN  /\ Len(rq.responses) = Len(recipients)
                /\ Len(rq.completed) = Len(recipients)
                /\ \A i \in 1 .. Len(recipients) :
                      \E k \in 1 .. Len(rq.completed) :
                          /\ rq.completed[k].index = i
                          /\ rq.completed[k].chat_id = recipients[i]
                          /\ rq.completed[k].result = rq.responses[i]
                          /\ \A j \in 1 .. Len(rq.completed) :
                                rq.completed[j].index = i => j = k

\* The call to the second recipient ended first, with another result than
\* the call to the first: the outcomes are in the order of the recipients.
C14_Witness ==
    \E r \in ReqIds :
        /\ Answered(r)
        /\ reqs[r].exit = "aggregate"
        /\ Len(reqs[r].completed) = 2
        /\ reqs[r].completed[1].index = 2
        /\ reqs[r].completed[1].result.status = 500
        /\ reqs[r].completed[2].result.status = 200
        /\ reqs[r].responses[1].status = 200
        /\ reqs[r].responses[2].status = 500


----------------------------------------------------------------------------
(* C15 *)

\* The same request, for a topic that is not configured.
ForAbsentTopic(rq) == [rq EXCEPT !.topic_name = nope]

\* Two requests that differ in nothing but the topic they name: where the
\* handler stands, what it has read, what it has sent, what it has answered.
SameButTopic(a, b) == a = [b EXCEPT !.topic_name = a.topic_name]

\* C15: a request for an existing topic from an address outside the topic's
\* allow-list is handled, step by step and up to the response (status and
\* body), as the same request for a topic that does not exist: every step of
\* the handler takes both to the same place with the same response and no
\* downstream call, and the answer after the ingestion is the 404 of an
\* absent topic.
C15_UnauthorizedAsAbsent ==
    /\ nope \notin DOMAIN topics
    /\ \A r \in ReqIds :
          LET rq   == reqs[r]
              twin == ForAbsentTopic(rq)
          IN  (rq.pc # "idle" /\ TopicExists(r) /\ HasAddress(r) /\ ~Authorized(r)) =>
                  /\ rq.pc # "fanout"
                  /\ rq.calls = <<>>
                  /\ (rq.pc = "received" /\ rq.kind = "text") =>
                        /\ SameButTopic(post_message_run(rq), post_message_run(twin))
                        /\ post_message_run(rq).response = Some(NotFound)
                  /\ (rq.pc = "received" /\ rq.kind = "multipart") =>
                        SameButTopic(document_start(rq), document_start(twin))
                  /\ rq.pc = "next_field" =>
                        \A item \in FieldItemsAt(r) :
                            SameButTopic(document_field(rq, item),
                                         document_field(twin, item))
                  /\ rq.pc = "read_message" =>
                        \A item \in ChunkItems :
                            SameButTopic(document_message_chunk(rq, item),
                                         document_message_chunk(twin, item))
                  /\ rq.pc = "read_file" =>
                        \A item \in ChunkItems :
                            SameButTopic(document_file_chunk(rq, item),
                                         document_file_chunk(twin, item))
                  /\ (Answered(r) /\ rq.exit = "not_found") => Response(r) = NotFound
                  /\ Answered(r) => rq.exit \in IngestionExits \cup {"no_file", "not_found"}

\* A file has been ingested for an existing topic from an address outside
\* its allow-list, and the answer is the one of an absent topic.
C15_Witness ==
    \E r \in ReqIds :
        /\ Answered(r)
        /\ reqs[r].kind = "multipart"
        /\ TopicExists(r)
        /\ topics[reqs[r].topic_name].recipients # <<>>
        /\ HasAddress(r)
        /\ ~Authorized(r)
        /\ reqs[r].file_content # <<>>
        /\ Response(r) = NotFound


----------------------------------------------------------------------------
(* C16 *)

\* C16: every "file" field the ingestion accepts carries a non-empty
\* filename: announced without a filename or with an empty one, the field
\* ends the request with 400 "Multipart filename missing", so that no
\* document is ever sent downstream under an empty filename.
C16_FilenameNonEmpty ==
    \A r \in ReqIds :
        /\ reqs[r].pc = "next_field" =>
              \A item \in FieldItemsAt(r) :
                  (item.tag = "field" /\ item.name = "file" /\ item.filename = None) =>
                      /\ Rejected(reqs[r], document_field(reqs[r], item))
                      /\ document_field(reqs[r], item).response
                            = Some(HttpResponse(400, <<"Multipart filename missing">>))
        /\ \A i \in 1 .. Len(reqs[r].calls) :
              reqs[r].calls[i].method = "sendDocument" => reqs[r].calls[i].filename # <<>>


----------------------------------------------------------------------------
(* C17 *)

\* The executor runs a handler that can go on; the body stream of a request
\* yields its next item, and comes to its end; every downstream call ends,
\* with a response, with an error, or with the client's timeout
\* (TgClient::new: Duration::new(10, 0)).
Fairness ==
    \A r \in ReqIds :
        /\ WF_vars(post_message(r))
        /\ WF_vars(post_message_with_document(r))
        /\ WF_vars(NextField(r))
        /\ WF_vars(NextChunk(r))
        /\ WF_vars(CompleteCall(r))
        /\ WF_vars(JoinAll(r))

\* One topic open to the upper half of IPv4, with every recipient list;
\* callers with and without an address, for the topic and for an absent one.
LiveTopics == {[n \in {ops} |-> Topic(rs, <<UpperV4>>)] : rs \in RecipientLists}

LiveFieldSequences == {<<"file">>, <<"message", "file">>, <<"file", "other">>}

InitLive ==
    /\ topics \in LiveTopics
    /\ reqs = [r \in ReqIds |-> IdleRequest]

NextLive ==
    \E r \in ReqIds :
        \/ ReceiveTextFrom(r, {None, UpperV4Remote}, TopicNames, Senders, Bodies)
        \/ ReceiveMultipartFrom(r, {UpperV4Remote}, TopicNames, Senders, LiveFieldSequences)
        \/ post_message(r)
        \/ post_message_with_document(r)
        \/ NextField(r)
        \/ NextChunk(r)
        \/ CompleteCall(r)
        \/ JoinAll(r)
        \/ Close(r)

FairSpec == InitLive /\ [][NextLive]_vars /\ Fairness

\* A request has a response exactly when its handler has returned, and on the
\* delivery path every call it issued has ended by then.
C17_AnsweredAfterAllCalls ==
    \A r \in ReqIds :
        /\ (reqs[r].response # None) <=> Answered(r)
        /\ (Answered(r) /\ reqs[r].calls # <<>>) =>
              /\ reqs[r].exit = "aggregate"
              /\ \A i \in 1 .. Len(reqs[r].calls) :
                    reqs[r].calls[i].done /\ reqs[r].calls[i].result # Pending

\* The response is given once: a step gives one only to a request that has
\* none and, out of the fan-out, only when no call is in flight; a response
\* given is not replaced.
C17_OneResponse ==
    \A r \in ReqIds :
        /\ reqs[r].response # None =>
              (reqs'[r] = reqs[r] \/ reqs'[r] = IdleRequest)
        /\ (reqs[r].pc = "fanout" /\ reqs'[r].pc = "done") =>
              \A i \in 1 .. Len(reqs[r].calls) : reqs[r].calls[i].done

\* C17: a request whose body stream ends and whose downstream calls all end
\* (response, error or the 10-second timeout) gets exactly one response, and
\* on the delivery path only after all its per-recipient calls have ended.
C17_ExactlyOneResponse ==
    /\ [](C17_AnsweredAfterAllCalls)
    /\ [][C17_OneResponse]_vars
    /\ \A r \in ReqIds : (reqs[r].pc = "received") ~> Answered(r)

\* A response given after the last of two calls ended in a timeout.
C17_Witness ==
    \E r \in ReqIds :
        /\ Answered(r)
        /\ reqs[r].exit = "aggregate"
        /\ Len(reqs[r].calls) = 2
        /\ Len(reqs[r].completed) = 2
        /\ reqs[r].completed[2].result.err = "timeout"
        /\ reqs[r].completed[1].result.ok


----------------------------------------------------------------------------
(* C18 *)

\* How many of the first i characters of s are reserved.
ReservedUpTo(s, i) == Cardinality({k \in 1 .. i : s[k] \in need_to_escape})

\* e is s escaped once: the characters of s in their order, each reserved one
\* with one backslash before it, and nothing else.
IsEscapedOnce(s, e) ==
    /\ Len(e) = Len(s) + ReservedUpTo(s, Len(s))
    /\ \A i \in 1 .. Len(s) :
          /\ e[i + ReservedUpTo(s, i)] = s[i]
          /\ s[i] \in need_to_escape => e[i + ReservedUpTo(s, i) - 1] = 92

\* C18: the text of a sendMessage and the caption of a sendDocument are
\* composed alike: "From: *", the sender escaped once, "@", the topic as it
\* is, "*", two newlines, the message as it is; both go out as MarkdownV2.
C18_ComposedText ==
    \A r \in ReqIds : \A i \in 1 .. Len(reqs[r].calls) :
        LET call    == reqs[r].calls[i]
            escaped == EscapedIn(r, call.text)
        IN  /\ call.method = (IF reqs[r].kind = "text" THEN "sendMessage" ELSE "sendDocument")
            /\ call.parse_mode = "MarkdownV2"
            /\ IsEscapedOnce(reqs[r].sender, escaped)
            /\ call.text = <<70, 114, 111, 109, 58, 32, 42>> \o escaped \o <<64>>
                              \o reqs[r].topic_name \o <<42, 10, 10>> \o MessageOf(r)

\* The caption "From: *a\_@ops.eu*", two newlines, "*": the sender's
\* underscore escaped; the topic's dot and the message's star are not.
C18_Witness ==
    \E r \in ReqIds :
        /\ reqs[r].pc = "fanout"
        /\ reqs[r].calls[1].method = "sendDocument"
        /\ reqs[r].sender = <<97, 95>>
        /\ reqs[r].message = Some(<<42>>)
        /\ reqs[r].calls[1].text
              = <<70, 114, 111, 109, 58, 32, 42, 97, 92, 95, 64,
                  111, 112, 115, 46, 101, 117, 42, 10, 10, 42>>


----------------------------------------------------------------------------
(* C19 *)

\* Two requests in the hands of the server's workers at the same time, for a
\* topic with one recipient: a text/plain one, from inside or outside the
\* allow-list, and a multipart one with a message and a file.
ConcIds == {"r1", "r2"}

ConcTopics == [n \in {ops} |-> Topic(<<"111">>, <<UpperV4>>)]

ConcRemotes == {UpperV4Remote, Some([kind |-> "ip", fam |-> "v4", bits |-> 0])}

InitConc ==
    /\ topics = ConcTopics
    /\ reqs = [r \in ConcIds |-> IdleRequest]

NextConc ==
    \E r \in ConcIds :
        \/ ReceiveTextFrom(r, ConcRemotes, {ops}, Senders, Bodies)
        \/ ReceiveMultipartFrom(r, {UpperV4Remote}, {ops}, Senders, {<<"message", "file">>})
        \/ post_message(r)
        \/ post_message_with_document(r)
        \/ NextField(r)
        \/ NextChunk(r)
        \/ CompleteCall(r)
        \/ JoinAll(r)
        \/ Close(r)

SpecConc == InitConc /\ [][NextConc]_vars

\* The response of an answered request, from what is its own: its address,
\* its topic, the return it took in the ingestion of its own body, and the
\* results with which its own calls ended.
OwnResponseStatus(r) ==
    IF ~HasAddress(r) THEN 500
    ELSE IF reqs[r].exit \in IngestionExits \cup {"no_file"} THEN 400
    ELSE IF ~Authorized(r) THEN 404
    ELSE IF \A k \in 1 .. Len(reqs[r].completed) :
                /\ reqs[r].completed[k].result.ok
                /\ reqs[r].completed[k].result.status = 200
         THEN 204
         ELSE 500

\* The calls of a request are those of its own topic's recipients, carry its
\* own sender, topic, message and file, and have ended with its own results;
\* its response follows from its own address, topic, body and results.
C19_OwnInputsOnly ==
    \A r \in DOMAIN reqs :
        LET rq == reqs[r]
        IN  /\ rq.calls # <<>> =>
                  /\ Authorized(r)
                  /\ Len(rq.calls) = Len(topics[rq.topic_name].recipients)
                  /\ \A i \in 1 .. Len(rq.calls) :
                        LET call == rq.calls[i]
                        IN  /\ call.chat_id = topics[rq.topic_name].recipients[i]
                            /\ IsEscapedOnce(rq.sender, EscapedIn(r, call.text))
                            /\ call.text = <<70, 114, 111, 109, 58, 32, 42>>
                                              \o EscapedIn(r, call.text) \o <<64>>
                                              \o rq.topic_name \o <<42, 10, 10>> \o MessageOf(r)
                            /\ rq.kind = "multipart" =>
                                  (call.document = rq.file_content
                                      /\ call.filename = rq.filename)
                            /\ call.done =>
                                  \E k \in 1 .. Len(rq.completed) :
                                      /\ rq.completed[k].index = i
                                      /\ rq.completed[k].result = call.result
            /\ Answered(r) =>
                  /\ Response(r).status = OwnResponseStatus(r)
                  /\ Response(r).status = 404 => Response(r) = NotFound
                  /\ Response(r).status = 204 => Response(r).body = <<>>
                  /\ rq.exit = "aggregate" <=> Response(r).status \in {204, 500} /\ HasAddress(r)

\* A step is a step of one request: it leaves the Topic registry and every
\* other request as they are.
C19_Frame ==
    /\ topics' = topics
    /\ \E r \in DOMAIN reqs : \A q \in DOMAIN reqs \ {r} : reqs'[q] = reqs[q]

\* C19: handling a request leaves the Topic registry unchanged on every path,
\* and in every interleaving of the requests handled at the same time the
\* response and the downstream calls of each depend on its own address,
\* topic, sender, body and downstream results only.
C19_RequestsIndependent == [](C19_OwnInputsOnly) /\ [][C19_Frame]_vars

\* While a multipart request waits for its call, a text/plain request with
\* another message has been delivered and answered 204.
C19_Witness ==
    /\ Answered("r1")
    /\ reqs["r1"].kind = "text"
    /\ reqs["r1"].body = <<104, 42>>
    /\ Response("r1").status = 204
    /\ reqs["r2"].kind = "multipart"
    /\ reqs["r2"].pc = "fanout"
    /\ reqs["r2"].message = Some(<<42>>)
    /\ ~reqs["r2"].calls[1].done


----------------------------------------------------------------------------
(* C20 *)

\* A "file" field is taken whatever came before it: its announcement gives
\* the filename and keeps the content read so far, each of its chunks goes to
\* the end of the content.  A "message" field starts from an empty buffer
\* and, at its end, its text is the message, whatever the message was.  At
\* the end of the stream the content is refused only if it is empty, and
\* what is sent is the content, the filename and the message as they stand.
C20_Accumulates ==
    \A r \in ReqIds :
        LET rq == reqs[r]
        IN  /\ rq.pc = "next_field" =>
                  \A item \in FieldItemsAt(r) :
                      LET next == document_field(rq, item)
                      IN  /\ (item.tag = "field" /\ item.name = "file"
                                  /\ item.filename # None) =>
                                 /\ next.pc = "read_file"
                                 /\ next.filename = unwrap(item.filename)
                                 /\ next.file_content = rq.file_content
                                 /\ next.message = rq.message
                          /\ (item.tag = "field" /\ item.name = "message") =>
                                 /\ next.pc = "read_message"
                                 /\ next.buffer = <<>>
                                 /\ next.file_content = rq.file_content
                                 /\ next.filename = rq.filename
                          /\ item.tag = "end" =>
                                 /\ rq.file_content = <<>> <=> next.exit = "no_file"
                                 /\ \A i \in 1 .. Len(next.calls) :
                                       /\ next.calls[i].document = rq.file_content
                                       /\ next.calls[i].filename = rq.filename
                                       /\ rq.message # None =>
                                             next.calls[i].text
                                                = format_from(rq.sender, rq.topic_name,
                                                              unwrap(rq.message))
            /\ rq.pc = "read_file" =>
                  \A item \in ChunkItems :
                      LET next == document_file_chunk(rq, item)
                      IN  /\ item.tag = "chunk" =>
                                 /\ next.file_content = rq.file_content \o item.bytes
                                 /\ next.pc = "read_file"
                          /\ item.tag = "end" =>
                                 (next.file_content = rq.file_content /\ next.pc = "next_field")
                          /\ next.filename = rq.filename
                          /\ next.message = rq.message
            /\ rq.pc = "read_message" =>
                  \A item \in ChunkItems :
                      LET next == document_message_chunk(rq, item)
                      IN  /\ item.tag = "chunk" =>
                                 (next.buffer = rq.buffer \o item.bytes
                                     /\ next.message = rq.message)
                          /\ (item.tag = "end" /\ next.pc # "done") =>
                                 (next.message = Some(rq.buffer) /\ next.pc = "next_field")
                          /\ next.file_content = rq.file_content
                          /\ next.filename = rq.filename
            \* every chunk of a body made of "file" fields only is in the
            \* document, one byte each
            /\ (rq.kind = "multipart" /\ NoMessageIn(r)) =>
                  /\ rq.pc \in {"next_field", "read_file"} => Len(rq.file_content) = rq.nchunks
                  /\ \A i \in 1 .. Len(rq.calls) : Len(rq.calls[i].document) = rq.nchunks

\* Once the ingestion is over, nothing touches what has been read nor what
\* is being sent.
C20_Kept ==
    \A r \in ReqIds :
        (reqs[r].pc \in {"fanout", "done"} /\ reqs'[r].pc \in {"fanout", "done"}) =>
            /\ reqs'[r].file_content = reqs[r].file_content
            /\ reqs'[r].filename = reqs[r].filename
            /\ reqs'[r].message = reqs[r].message
            /\ \A i \in 1 .. Len(reqs[r].calls) :
                  /\ reqs'[r].calls[i].document = reqs[r].calls[i].document
                  /\ reqs'[r].calls[i].filename = reqs[r].calls[i].filename
                  /\ reqs'[r].calls[i].text = reqs[r].calls[i].text

\* C20: a multipart body with several "file" fields is not refused: the
\* document delivered is the bytes of all its "file" fields, one after the
\* other as they came, under the filename of the last of them, and "no file
\* provided" is about that concatenation; of several "message" fields, the
\* text of the last is the message delivered.
C20_LastFieldWins == [](C20_Accumulates) /\ [][C20_Kept]_vars

\* Two "file" fields of one byte each, the second announced as "f": one
\* document of the two bytes in their order, named "f".
C20_Witness ==
    \E r \in ReqIds :
        /\ reqs[r].pc = "fanout"
        /\ reqs[r].field_names = <<"file", "file">>
        /\ reqs[r].calls[1].document = <<255, 42>>
        /\ reqs[r].calls[1].filename = <<102>>

====
